---- MODULE Spec2Model ----
(***************************************************************************)
(* Brief AI: a model of the AI router (services/ai-router.js), the cloud   *)
(* service's simulated streaming (services/cloud-ai-service.js), the       *)
(* Firebase callable functions (firebase/functions/index.js), the local    *)
(* Summarizer cache (services/ai-services.js) and the live caption         *)
(* translator of the content script (content.js).                          *)
(*                                                                         *)
(* Every component has its own variables and its own specification; a      *)
(* specification keeps the variables of the other components parked.       *)
(***************************************************************************)
EXTENDS Integers, Sequences, FiniteSets, TLC

VARIABLES
    \* ---- AI router (ai-router.js) and its environment
    storedMode,      \* chrome.storage.local 'aiMode' ("unset" when absent)
    preferredMode,   \* AIRouter.preferredMode
    authed,          \* firebaseAuth.currentUser !== null
    online,          \* navigator.onLine
    api,             \* state of the browser's built-in AI APIs
    req,             \* the router request in flight
    \* ---- CloudAIService.translateStream / chatStream
    sPc,             \* "idle", "call", "loop", "done"
    sOp,             \* the streaming operation
    sOnChunk,        \* whether the caller passed an onChunk callback
    sText,           \* the full result text (translatedText / response)
    sI,              \* the loop variable i
    sChunks,         \* the arguments of the onChunk calls, in order
    sResult,         \* "none", "ok" (the result was returned) or "error"
    \* ---- Firebase callable functions (firebase/functions/index.js)
    userDoc,         \* the Firestore document users/{uid}
    day,             \* the server's current day
    fn,              \* the function invocations in flight, one per instance
    servedToday,     \* successful AI responses sent to the user this day
    started,         \* invocations received so far
    \* ---- AIService.summarize (services/ai-services.js)
    summarizer,       \* this.summarizer: the cached Summarizer instance
    summarizerConfig, \* this.summarizerConfig: its config key, or null
    sumCall,          \* the summarize calls in flight, one per caller
    created,          \* Summarizer instances created so far
    destroyed,        \* ids of the instances destroy() was called on
    \* ---- LiveTranslatorController (content.js) and the page it runs in
    site,             \* the site named by window.location.hostname
    hasVideo,         \* whether the page has a video element
    tracks,           \* number of text tracks of the video
    now,              \* the clock, in ms
    active,           \* this.active
    platform,         \* this.platform
    overlay,          \* this.overlay and its text
    lastOriginal,     \* this.lastOriginal (0: the empty string)
    mutationObserver, \* this.mutationObserver (0: null)
    listeners,        \* this.listeners
    debounceTimer,    \* this.debounceTimer (0: null)
    observers,        \* the MutationObservers that are observing
    registry,         \* the event listeners registered on tracks
    timers,           \* the timeouts that are pending
    det,              \* the time of each handled caption detection, in order
    processed,        \* the detections whose text processCaption took up
    calledInactive,   \* processCaption was called while not active
    cycles,           \* number of start() calls
    lastStop,         \* what the last stop() found to clean up
    inflight,         \* the TRANSLATE requests awaiting their response
    panel,            \* the side panel's original and translated texts
    \* ---- AIRouter.chat and the chat context
    conversationHistory, \* AIRouter.conversationHistory
    aiSession,        \* AIService.aiSession and what the session has seen
    chatCall,         \* the chat call in flight
    answered,         \* messages answered since the last resetChatSession
    asked,            \* number of chat messages sent so far
    \* ---- the AI mode: AIService.aiMode, setMode / setAIMode and the loads
    aiMode,           \* AIService.aiMode of the service worker
    setCall,          \* the setMode / setAIMode call in flight
    load,             \* the initialize / getAIMode call in flight
    lastSet,          \* the last setMode / setAIMode call that completed
    handled,          \* how the last feature request was handled
    \* ---- AIService.translate / translateStream
    translator,       \* this.translator: the cached Translator instance
    translatorPair,   \* this.translatorPair: its pair key, or null
    trCall,           \* the translate calls in flight, one per caller
    trStarted,        \* translate calls started so far
    trCreated,        \* Translator instances created so far
    \* ---- the service worker's streaming ports
    port              \* each port: its request, the messages posted on it

routerVars == <<storedMode, preferredMode, authed, online, api, req>>
streamVars == <<sPc, sOp, sOnChunk, sText, sI, sChunks, sResult>>

cloudVars == <<userDoc, day, fn, servedToday, started>>

sumVars == <<summarizer, summarizerConfig, sumCall, created, destroyed>>

pageVars == <<site, hasVideo, tracks, now>>
liveVars == <<active, platform, overlay, lastOriginal, mutationObserver,
              listeners, debounceTimer>>
browserVars == <<observers, registry, timers>>
liveLog == <<det, processed, calledInactive, cycles, lastStop>>
translateVars == <<inflight, panel>>
captionVars == <<pageVars, liveVars, browserVars, liveLog, translateVars>>

chatVars == <<conversationHistory, aiSession, chatCall, answered, asked>>

modeVars == <<aiMode, setCall, load, lastSet, handled>>

translatorVars == <<translator, translatorPair, trCall, trStarted, trCreated>>

portVars == <<port>>

vars == <<routerVars, streamVars, cloudVars, sumVars, captionVars, chatVars, modeVars, translatorVars, portVars>>

RouterFrame == UNCHANGED <<streamVars, cloudVars, sumVars, captionVars, chatVars, modeVars, translatorVars, portVars>>
StreamFrame == UNCHANGED <<routerVars, cloudVars, sumVars, captionVars, chatVars, modeVars, translatorVars, portVars>>
CloudFrame == UNCHANGED <<routerVars, streamVars, sumVars, captionVars, chatVars, modeVars, translatorVars, portVars>>
SumFrame == UNCHANGED <<routerVars, streamVars, cloudVars, captionVars, chatVars, modeVars, translatorVars, portVars>>
CaptionFrame == UNCHANGED <<routerVars, streamVars, cloudVars, sumVars, chatVars, modeVars, translatorVars, portVars>>
ChatFrame == UNCHANGED <<routerVars, streamVars, cloudVars, sumVars, captionVars, modeVars, translatorVars, portVars>>
ModeFrame == UNCHANGED <<authed, online, api, req, streamVars, cloudVars, sumVars, captionVars, chatVars, translatorVars, portVars>>
TranslatorFrame == UNCHANGED <<routerVars, streamVars, cloudVars, sumVars, captionVars, chatVars, modeVars, portVars>>
PortFrame == UNCHANGED <<routerVars, streamVars, cloudVars, sumVars, captionVars, chatVars, modeVars, translatorVars>>

(***************************************************************************)
(* The state of each component before anything has happened.               *)
(***************************************************************************)

\* No router request yet.
IdleReq == [pc |-> "idle", op |-> "summarize", len |-> 0, mode |-> "local",
            calls |-> <<>>, failed |-> <<>>, access |-> "na",
            altOk |-> "na", result |-> "none"]

\* Signed out, online, the built-in APIs available, no request.
RouterEnvParked ==
    /\ authed = FALSE
    /\ online = TRUE
    /\ api = [summarizer |-> "available", translator |-> "available",
              languageDetector |-> "available", languageModel |-> "available"]
    /\ req = IdleReq

RouterParked ==
    /\ storedMode = "unset"
    /\ preferredMode = "local"
    /\ RouterEnvParked

StreamParked ==
    /\ sPc = "idle"
    /\ sOp = "translateStream"
    /\ sOnChunk = TRUE
    /\ sText = <<>>
    /\ sI = 0
    /\ sChunks = <<>>
    /\ sResult = "none"

\* The function instances that can run at the same time.
Instances == {"i1", "i2"}

\* A function instance with no invocation.
IdleFn == [pc |-> "idle", name |-> "getUserInfo", auth |-> "none",
           code |-> "none", fsOps |-> 0, modelCalls |-> 0,
           denied |-> FALSE, message |-> <<>>]

\* The user document before it is created: userDoc.exists is false.
NoDoc == [exists |-> FALSE, subscription |-> "free", requestsToday |-> 0,
          lastReset |-> 0]

CloudParked ==
    /\ userDoc = NoDoc
    /\ day = 0
    /\ fn = [i \in Instances |-> IdleFn]
    /\ servedToday = 0
    /\ started = 0

\* The callers whose summarize calls can overlap.
Callers == {"a", "b"}

\* A string is the sequence of its parts between hyphens; null, undefined
\* and the empty string are the empty sequence.
Null == <<>>

\* No Summarizer instance (this.summarizer = null).
NoInstance == [id |-> 0, type |-> Null, length |-> Null, format |-> Null]

\* A caller with no summarize call.
IdleSum == [pc |-> "idle", type |-> Null, length |-> Null, format |-> Null,
            used |-> NoInstance, result |-> "none"]

SumParked ==
    /\ summarizer = NoInstance
    /\ summarizerConfig = Null
    /\ sumCall = [c \in Callers |-> IdleSum]
    /\ created = 0
    /\ destroyed = {}

\* No overlay element.
NoOverlay == [exists |-> FALSE, kind |-> "none", caption |-> 0]

\* What a stop() with nothing to clean up finds.
NothingToStop == [observer |-> FALSE, listeners |-> 0, timer |-> FALSE]

\* The side panel before any update (0: no text).
EmptyPanel == [original |-> 0, translated |-> 0]

\* The controller as constructed, on a page with no video.
CaptionParked ==
    /\ site = "generic"
    /\ hasVideo = FALSE
    /\ tracks = 0
    /\ now = 0
    /\ active = FALSE
    /\ platform = "generic"
    /\ overlay = NoOverlay
    /\ lastOriginal = 0
    /\ mutationObserver = 0
    /\ listeners = {}
    /\ debounceTimer = 0
    /\ observers = {}
    /\ registry = {}
    /\ timers = {}
    /\ det = <<>>
    /\ processed = {}
    /\ calledInactive = FALSE
    /\ cycles = 0
    /\ lastStop = NothingToStop
    /\ inflight = {}
    /\ panel = EmptyPanel

\* No LanguageModel session (this.aiSession = null).
NoSession == [exists |-> FALSE, history |-> <<>>]

\* No chat call yet.
IdleChat == [pc |-> "idle", message |-> 0, calls |-> <<>>,
             context |-> <<>>, iterable |-> TRUE, owed |-> {},
             result |-> "none"]

ChatParked ==
    /\ conversationHistory = <<>>
    /\ aiSession = NoSession
    /\ chatCall = IdleChat
    /\ answered = {}
    /\ asked = 0

\* No setMode / setAIMode call in flight.
IdleSet == [pc |-> "idle", by |-> "router", mode |-> "local"]

\* No initialize / getAIMode call in flight.
IdleLoad == [pc |-> "idle", by |-> "router", feature |-> "summarize",
             value |-> "unset", want |-> "none", wantBy |-> "router"]

\* No set call has completed.
NeverSet == [mode |-> "none", by |-> "router"]

\* No feature request yet.
NotHandled == [by |-> "router", feature |-> "none", how |-> "none",
               want |-> "none", wantBy |-> "router"]

ModeParked ==
    /\ aiMode = "local"
    /\ setCall = IdleSet
    /\ load = IdleLoad
    /\ lastSet = NeverSet
    /\ handled = NotHandled

\* No Translator instance (this.translator = null).
NoTranslator == [id |-> 0, source |-> "", target |-> ""]

\* A caller with no translate call.
IdleTr == [pc |-> "idle", op |-> "translate", source |-> "", target |-> "",
           used |-> NoTranslator, result |-> "none"]

TranslatorParked ==
    /\ translator = NoTranslator
    /\ translatorPair = Null
    /\ trCall = [c \in Callers |-> IdleTr]
    /\ trStarted = 0
    /\ trCreated = 0

\* The ports the side panel can open.
PortIds == {1, 2}

\* A port that is not open yet.
NoPort == [name |-> "none", pc |-> "none", connected |-> FALSE,
           path |-> "local", posted |-> <<>>, ended |-> "none"]

PortParked == port = [p \in PortIds |-> NoPort]

(***************************************************************************)
(* AI ROUTER                                                               *)
(***************************************************************************)

Modes == {"local", "cloud", "auto"}

\* The router operations and the action name each hands to selectProvider.
RouterOps == {"summarize", "translate", "chat", "translateStream", "chatStream"}

ActionOf(op) ==
    CASE op = "summarize" -> "summarize"
      [] op \in {"translate", "translateStream"} -> "translate"
      [] op \in {"chat", "chatStream"} -> "chat"

IsStreamOp(op) == op \in {"translateStream", "chatStream"}

LOCAL_MAX_LENGTH == 10000

\* Text lengths tried: empty, just below and at the local limit.
TextLengths == {0, LOCAL_MAX_LENGTH - 1, LOCAL_MAX_LENGTH}

\* What <Api>.availability() does: returns a value or throws.
ApiStates == {"available", "unavailable", "throws"}

\* A JavaScript property read: a missing property is undefined.
Prop(rec, name) == IF name \in DOMAIN rec THEN rec[name] ELSE "undefined"

\* AIService.checkAvailability: the four checks run in order inside one try;
\* the translator check has a try of its own, any other throw ends the checks
\* and leaves the remaining entries at 'checking'.
CheckAvailability(a) ==
    LET s0 == [summarizer |-> "checking", translator |-> "checking",
               languageDetector |-> "checking", promptAPI |-> "checking"]
        s2 == [s0 EXCEPT !.summarizer = a.summarizer,
                         !.translator = IF a.translator = "throws"
                                        THEN "unavailable" ELSE a.translator]
        s3 == [s2 EXCEPT !.languageDetector = a.languageDetector]
        s4 == [s3 EXCEPT !.promptAPI = a.languageModel]
    IN  IF a.summarizer = "throws" THEN s0
        ELSE IF a.languageDetector = "throws" THEN s2
        ELSE IF a.languageModel = "throws" THEN s3
        ELSE s4

\* AIRouter.isLocalAvailable(action)
IsLocalAvailable(action, a) ==
    LET availability == CheckAvailability(a)
    IN  CASE action = "summarize" -> Prop(availability, "summarizer") = "available"
          [] action = "translate" -> Prop(availability, "translator") = "available"
          [] action = "detect" -> Prop(availability, "languageDetector") = "available"
          [] action \in {"prompt", "chat"} -> Prop(availability, "languageModel") = "available"
          [] OTHER -> FALSE

\* AIRouter.selectProvider after initialize(): "throw" stands for the
\* 'No AI provider available' error.
SelectProvider(mode, action, textLength, a, hasCloudAccess, isOnline) ==
    IF mode = "cloud" THEN (IF hasCloudAccess THEN "cloud" ELSE "local")
    ELSE IF mode = "local" THEN "local"
    ELSE IF mode = "auto" THEN
        LET localAvailable == IsLocalAvailable(action, a)
        IN  IF localAvailable /\ textLength < LOCAL_MAX_LENGTH THEN "local"
            ELSE IF hasCloudAccess /\ isOnline THEN "cloud"
            ELSE IF localAvailable THEN "local"
            ELSE "throw"
    ELSE "local"

\* AIRouter.initialize: result.aiMode || 'local'
LoadedMode(stored) == IF stored = "unset" THEN "local" ELSE stored

\* A provider other than the one named: the faulty choice of the failed
\* provider itself.
SameProvider(failedProvider) == failedProvider

\* AIRouter.fallback: the provider tried after failedProvider threw.
AlternateProvider(failedProvider) ==
    IF failedProvider = "cloud" THEN "local" ELSE "cloud"

\* AIRouter.fallback: whether the alternate provider passes the check made
\* before it is called.
AlternateAccessible(alternate, action, a, hasCloudAccess) ==
    IF alternate = "cloud" THEN hasCloudAccess
    ELSE IsLocalAvailable(action, a)

\* The built-in API behind each local operation.
ApiOf(action) ==
    CASE action = "summarize" -> "summarizer"
      [] action = "translate" -> "translator"
      [] action = "chat" -> "languageModel"

\* A provider call can return only if the provider is there: the local API
\* answers 'available', the cloud call is authenticated (callFunction) and
\* the network is up.  It can always throw.
CanSucceed(provider, action) ==
    IF provider = "cloud" THEN authed /\ online
    ELSE api[ApiOf(action)] = "available"

RouterInit ==
    /\ storedMode \in Modes \cup {"unset"}
    /\ preferredMode = "local"
    /\ authed \in BOOLEAN
    /\ online \in BOOLEAN
    /\ api \in [summarizer : ApiStates, translator : {"available", "throws"},
                languageDetector : {"available", "throws"},
                languageModel : {"available", "unavailable"}]
    /\ req = IdleReq

\* The user signs in or out (firebase-auth.js onAuthStateChanged).
AuthChange ==
    /\ RouterFrame
    /\ authed' = ~authed
    /\ UNCHANGED <<storedMode, preferredMode, online, api, req>>

\* The browser goes online or offline.
NetworkChange ==
    /\ RouterFrame
    /\ online' = ~online
    /\ UNCHANGED <<storedMode, preferredMode, authed, api, req>>

\* AIRouter.setMode(mode), between requests.
SetMode(mode) ==
    /\ RouterFrame
    /\ req.pc \in {"idle", "done"}
    /\ preferredMode' = mode
    /\ storedMode' = mode
    /\ UNCHANGED <<authed, online, api, req>>

\* A caller invokes summarize / translate / translateStream / chat /
\* chatStream: selectProvider runs (initialize reloads the mode), and the
\* chosen provider is called at once, or the selection throws.
StartRequest(op, len) ==
    /\ RouterFrame
    /\ req.pc \in {"idle", "done"}
    /\ LET mode == LoadedMode(storedMode)
           provider == SelectProvider(mode, ActionOf(op), len, api, authed, online)
       IN  /\ preferredMode' = mode
           /\ req' = IF provider = "throw"
                     THEN [IdleReq EXCEPT !.pc = "done", !.op = op, !.len = len,
                                          !.mode = mode, !.result = "error"]
                     ELSE [IdleReq EXCEPT !.pc = "await", !.op = op, !.len = len,
                                          !.mode = mode, !.calls = <<provider>>]
    /\ UNCHANGED <<storedMode, authed, online, api>>

\* The provider called first returns.
FirstReturns ==
    /\ RouterFrame
    /\ req.pc = "await"
    /\ CanSucceed(req.calls[1], ActionOf(req.op))
    /\ req' = [req EXCEPT !.pc = "done", !.result = "ok"]
    /\ UNCHANGED <<storedMode, preferredMode, authed, online, api>>

\* The provider called first throws: the streaming operations rethrow, the
\* others go through fallback(), which calls the alternate provider if its
\* check passes and throws otherwise.
FirstThrows ==
    /\ RouterFrame
    /\ req.pc = "await"
    /\ LET failedProvider == req.calls[1]
           alternate == AlternateProvider(failedProvider)
           accessible == AlternateAccessible(alternate, ActionOf(req.op), api, authed)
           failedReq == [req EXCEPT !.failed = <<failedProvider>>,
                                    !.access = authed]
       IN  req' = IF IsStreamOp(req.op)
                  THEN [failedReq EXCEPT !.pc = "done", !.result = "error"]
                  ELSE IF accessible
                  THEN [failedReq EXCEPT !.pc = "fallback", !.altOk = TRUE,
                                         !.calls = Append(req.calls, alternate)]
                  ELSE [failedReq EXCEPT !.pc = "done", !.altOk = FALSE,
                                         !.result = "error"]
    /\ UNCHANGED <<storedMode, preferredMode, authed, online, api>>

\* The alternate provider returns.
FallbackReturns ==
    /\ RouterFrame
    /\ req.pc = "fallback"
    /\ CanSucceed(req.calls[2], ActionOf(req.op))
    /\ req' = [req EXCEPT !.pc = "done", !.result = "ok"]
    /\ UNCHANGED <<storedMode, preferredMode, authed, online, api>>

\* The alternate provider throws: the error reaches the caller.
FallbackThrows ==
    /\ RouterFrame
    /\ req.pc = "fallback"
    /\ req' = [req EXCEPT !.pc = "done", !.result = "error",
                          !.failed = Append(req.failed, req.calls[2])]
    /\ UNCHANGED <<storedMode, preferredMode, authed, online, api>>

RouterNext ==
    \/ AuthChange
    \/ NetworkChange
    \/ \E mode \in Modes : SetMode(mode)
    \/ \E op \in RouterOps, len \in TextLengths : StartRequest(op, len)
    \/ FirstReturns
    \/ FirstThrows
    \/ FallbackReturns
    \/ FallbackThrows

InitRouter == RouterInit /\ StreamParked /\ CloudParked /\ SumParked /\ CaptionParked /\ ChatParked /\ ModeParked /\ TranslatorParked /\ PortParked

SpecRouter == InitRouter /\ [][RouterNext]_vars

\* req.mode: the mode selectProvider saw; req.calls: the providers called, in
\* order; req.failed: the providers that threw; req.access: hasCloudAccess when
\* the first provider threw; req.altOk: the outcome of fallback's check.

C6_LocalModeNeverCallsCloud ==
    req.mode = "local" => \A i \in 1..Len(req.calls) : req.calls[i] # "cloud"

\* C7: a finished request whose local provider threw while the user had cloud
\* access has called the cloud provider, for every router operation.
C7_LocalFailureReachesCloud ==
    (req.pc = "done" /\ req.failed # <<>> /\ req.failed[1] = "local"
        /\ req.access = TRUE)
      => \E i \in 1..Len(req.calls) : req.calls[i] = "cloud"

\* C8: in 'auto' mode, when the local API of the action answers 'available'
\* and the text is shorter than LOCAL_MAX_LENGTH, the provider selected (the
\* one called first) is 'local'.
C8_AutoPrefersLocal ==
    (req.pc # "idle" /\ req.mode = "auto"
        /\ api[ApiOf(ActionOf(req.op))] = "available"
        /\ req.len < LOCAL_MAX_LENGTH)
      => (req.calls # <<>> /\ req.calls[1] = "local")

(***************************************************************************)
(* CLOUD AI SERVICE: SIMULATED STREAMING                                   *)
(***************************************************************************)

\* The longest result text tried.
MaxTextLen == 32

\* The divisor of the chunk size: 10 in translateStream, 15 in chatStream.
TranslateParts == 10
ChatParts == 15

StreamOps == {"translateStream", "chatStream"}

Parts(op) == IF op = "translateStream" THEN TranslateParts ELSE ChatParts

\* The result texts tried: one text of every length, over three characters.
StreamTexts == {[i \in 1..n |-> i % 3] : n \in 0..MaxTextLen}

Min(a, b) == IF a < b THEN a ELSE b
Max(a, b) == IF a > b THEN a ELSE b

\* Math.floor(a / b) for a >= 0, b > 0.
FloorDiv(a, b) == a \div b

\* Math.ceil(a / b) for a >= 0, b > 0.
CeilDiv(a, b) == (a + b - 1) \div b

\* The chunk size a truncating division would give.
ChunkSizeFloor(length, parts) == FloorDiv(length, parts)

\* chunkSize = Math.ceil(text.length / parts)
ChunkSize(length, parts) == CeilDiv(length, parts)

\* String.prototype.substring(start, end): both ends are clamped to the
\* string and swapped when start > end.
Substring(str, start, end) ==
    LET a == Min(Max(start, 0), Len(str))
        b == Min(Max(end, 0), Len(str))
    IN  SubSeq(str, Min(a, b) + 1, Max(a, b))

\* Before the first call.
StreamInit == StreamParked

\* translateStream / chatStream is called: it awaits translate() / chat().
StreamCall(op, onChunk) ==
    /\ StreamFrame
    /\ sPc \in {"idle", "done"}
    /\ sPc' = "call"
    /\ sOp' = op
    /\ sOnChunk' = onChunk
    /\ sText' = <<>>
    /\ sI' = 0
    /\ sChunks' = <<>>
    /\ sResult' = "none"

\* translate() / chat() returns the result text: the loop starts at i = 0.
StreamResult(text) ==
    /\ StreamFrame
    /\ sPc = "call"
    /\ sPc' = "loop"
    /\ sText' = text
    /\ sI' = 0
    /\ UNCHANGED <<sOp, sOnChunk, sChunks, sResult>>

\* translate() / chat() throws: the error reaches the caller.
StreamCallThrows ==
    /\ StreamFrame
    /\ sPc = "call"
    /\ sPc' = "done"
    /\ sResult' = "error"
    /\ UNCHANGED <<sOp, sOnChunk, sText, sI, sChunks>>

\* One iteration of the loop: the chunk substring(0, i + chunkSize) goes to
\* onChunk, then the 50 ms wait.
StreamChunk ==
    /\ StreamFrame
    /\ sPc = "loop"
    /\ sI < Len(sText)
    /\ LET chunkSize == ChunkSize(Len(sText), Parts(sOp))
           chunk == Substring(sText, 0, sI + chunkSize)
       IN  /\ sChunks' = IF sOnChunk THEN Append(sChunks, chunk) ELSE sChunks
           /\ sI' = sI + chunkSize
    /\ UNCHANGED <<sPc, sOp, sOnChunk, sText, sResult>>

\* The loop ends and the result is returned.
StreamReturn ==
    /\ StreamFrame
    /\ sPc = "loop"
    /\ ~(sI < Len(sText))
    /\ sPc' = "done"
    /\ sResult' = "ok"
    /\ UNCHANGED <<sOp, sOnChunk, sText, sI, sChunks>>

StreamNext ==
    \/ \E op \in StreamOps, onChunk \in BOOLEAN : StreamCall(op, onChunk)
    \/ \E text \in StreamTexts : StreamResult(text)
    \/ StreamCallThrows
    \/ StreamChunk
    \/ StreamReturn

InitStream == StreamInit /\ RouterParked /\ CloudParked /\ SumParked /\ CaptionParked /\ ChatParked /\ ModeParked /\ TranslatorParked /\ PortParked

SpecStream == InitStream /\ [][StreamNext]_vars

IsPrefix(p, str) == Len(p) <= Len(str) /\ p = SubSeq(str, 1, Len(p))

\* C3: the chunks handed to onChunk are strictly growing prefixes of the
\* result text, at most 10 (translateStream) or 15 (chatStream) of them; when
\* the call has returned, the last chunk is the full text, and for an empty
\* text no chunk was delivered; with an empty text the loop is left at once
\* and the result returned.
C3_GrowingPrefixChunks ==
    /\ Len(sChunks) <= Parts(sOp)
    /\ \A k \in 1..Len(sChunks) :
          /\ IsPrefix(sChunks[k], sText)
          /\ Len(sChunks[k]) > (IF k = 1 THEN 0 ELSE Len(sChunks[k - 1]))
    /\ (sResult = "ok" /\ sOnChunk) =>
          IF sText = <<>> THEN sChunks = <<>>
          ELSE sChunks # <<>> /\ sChunks[Len(sChunks)] = sText
    /\ (sPc = "loop" /\ sText = <<>>) => ENABLED StreamReturn

\* A stream that returned after delivering the full text in several chunks,
\* the last one shorter than the chunk size.
C3_Witness ==
    /\ sResult = "ok" /\ sOnChunk
    /\ Len(sChunks) > 2
    /\ Len(sText) % ChunkSize(Len(sText), Parts(sOp)) # 0

(***************************************************************************)
(* FIREBASE CALLABLE FUNCTIONS                                             *)
(***************************************************************************)

\* Invocations received in a run, and the last day of a run.
MaxRequests == 3
MaxDay == 1

\* limits.free in checkUserAccess
FreeLimit == 50

AiFunctions == {"summarizeText", "translateText", "chatWithAI"}
Functions == AiFunctions \cup {"getUserInfo"}

\* request.auth: absent, or the signed-in user.
Auths == {"none", "u1"}

\* Date.prototype.getDate for the days of a run, which lie in one month.
GetDate(d) == d + 1

\* limits[subscription] is Infinity for 'pro' and 'team'.
Unlimited(subscription) == subscription \in {"pro", "team"}

\* limits[subscription] || 50 for the other subscriptions.
Limit(subscription) == FreeLimit

\* checkUserAccess: used >= limit denies.
Allowed(subscription, used) ==
    Unlimited(subscription) \/ used < Limit(subscription)

\* The message of the error thrown when checkUserAccess denies.
DailyLimitMessage == "Daily limit reached. Upgrade to Pro for unlimited requests."

\* The prefix the catch of each AI function puts before error.message.
FailedPrefix(name) ==
    CASE name = "summarizeText" -> "Failed to summarize: "
      [] name = "translateText" -> "Failed to translate: "
      [] name = "chatWithAI" -> "Failed to chat: "

\* The catch of an AI function: whatever was thrown inside its try leaves as
\* HttpsError('internal', `Failed to ...: ${error.message}`).
Caught(name, error) ==
    [code |-> "internal", message |-> <<FailedPrefix(name)>> \o error.message]

\* The denial, thrown inside the try:
\* HttpsError('resource-exhausted', 'Daily limit reached. ...').
Denial == [code |-> "resource-exhausted", message |-> <<DailyLimitMessage>>]

\* The function's answer to a denied request.
Deny(f) ==
    [f EXCEPT !.pc = "done", !.denied = TRUE,
              !.code = Caught(f.name, Denial).code,
              !.message = Caught(f.name, Denial).message]

\* CloudAIService.callFunction: the message of the Error it throws for the
\* error of the callable.
CallFunctionMessage(code, message) ==
    IF code = "unauthenticated" THEN <<"Authentication required. Please sign in.">>
    ELSE IF code = "resource-exhausted" THEN <<DailyLimitMessage>>
    ELSE IF code = "permission-denied" THEN <<"Permission denied. Check your subscription.">>
    ELSE <<"Cloud AI error: ">> \o message

\* A check that lets getUserInfo through without authentication.
AuthRequiredExceptInfo(name) == name # "getUserInfo"

\* Every exported function starts with if (!request.auth) throw.
AuthRequired(name) == name \in Functions

\* The user document as a day of sequential use leaves it.
CloudInit ==
    /\ day = 0
    /\ fn = [i \in Instances |-> IdleFn]
    /\ started = 0
    /\ \/ userDoc = NoDoc /\ servedToday = 0
       \/ \E sub \in {"free", "pro"}, used \in {0, FreeLimit - 1, FreeLimit} :
             /\ userDoc = [exists |-> TRUE, subscription |-> sub,
                           requestsToday |-> used, lastReset |-> 0]
             /\ servedToday = used

\* The function ends with the HttpsError code (or "ok").
Respond(i, code) ==
    fn' = [fn EXCEPT ![i].pc = "done", ![i].code = code]

\* Midnight on the server.
DayChange ==
    /\ CloudFrame
    /\ day < MaxDay
    /\ day' = day + 1
    /\ servedToday' = 0
    /\ UNCHANGED <<userDoc, fn, started>>

\* A call arrives: the authentication check, the argument check, then the
\* first Firestore read is issued (checkUserAccess, or getUserInfo's own).
Receive(i, name, auth, valid) ==
    /\ CloudFrame
    /\ fn[i].pc \in {"idle", "done"}
    /\ started < MaxRequests
    /\ started' = started + 1
    /\ LET call == [IdleFn EXCEPT !.name = name, !.auth = auth]
       IN  fn' = [fn EXCEPT ![i] =
              IF AuthRequired(name) /\ auth = "none"
              THEN [call EXCEPT !.pc = "done", !.code = "unauthenticated"]
              ELSE IF name \in AiFunctions /\ ~valid
              THEN [call EXCEPT !.pc = "done", !.code = "invalid-argument"]
              ELSE IF name = "getUserInfo"
              THEN [call EXCEPT !.pc = "info", !.fsOps = 1]
              ELSE [call EXCEPT !.pc = "read", !.fsOps = 1]]
    /\ UNCHANGED <<userDoc, day, servedToday>>

\* checkUserAccess: the document read returns.  A missing document is created,
\* a counter of another day is reset, otherwise the limit is checked at once;
\* a denial is thrown inside the function's try and leaves as 'internal'.
ReadDoc(i) ==
    /\ CloudFrame
    /\ fn[i].pc = "read"
    /\ fn' = [fn EXCEPT ![i] =
          IF ~userDoc.exists
          THEN [@ EXCEPT !.pc = "create", !.fsOps = @ + 1]
          ELSE IF GetDate(day) # GetDate(userDoc.lastReset)
          THEN [@ EXCEPT !.pc = "reset", !.fsOps = @ + 1]
          ELSE IF Allowed(userDoc.subscription, userDoc.requestsToday)
          THEN [@ EXCEPT !.pc = "model", !.modelCalls = @ + 1]
          ELSE Deny(@)]
    /\ UNCHANGED <<userDoc, day, servedToday, started>>

\* checkUserAccess: set() of the new user document returns; access is granted
\* and the model is called.
CreateDoc(i) ==
    /\ CloudFrame
    /\ fn[i].pc = "create"
    /\ userDoc' = [exists |-> TRUE, subscription |-> "free",
                   requestsToday |-> 0, lastReset |-> day]
    /\ fn' = [fn EXCEPT ![i].pc = "model", ![i].modelCalls = @ + 1]
    /\ UNCHANGED <<day, servedToday, started>>

\* checkUserAccess: update() of the daily reset returns; the local copy of the
\* counter is 0 and the limit is checked.
ResetDoc(i) ==
    /\ CloudFrame
    /\ fn[i].pc = "reset"
    /\ userDoc.exists
    /\ userDoc' = [userDoc EXCEPT !.requestsToday = 0, !.lastReset = day]
    /\ fn' = [fn EXCEPT ![i] =
          IF Allowed(userDoc.subscription, 0)
          THEN [@ EXCEPT !.pc = "model", !.modelCalls = @ + 1]
          ELSE Deny(@)]
    /\ UNCHANGED <<day, servedToday, started>>

\* model.generateContent returns: logUsage adds the usage record.
ModelReturns(i) ==
    /\ CloudFrame
    /\ fn[i].pc = "model"
    /\ fn' = [fn EXCEPT ![i].pc = "usage", ![i].fsOps = @ + 1]
    /\ UNCHANGED <<userDoc, day, servedToday, started>>

\* model.generateContent throws (or its response has no candidate).
ModelThrows(i) ==
    /\ CloudFrame
    /\ fn[i].pc = "model"
    /\ Respond(i, "internal")
    /\ UNCHANGED <<userDoc, day, servedToday, started>>

\* logUsage: the usage record is stored; the counter update is issued.
UsageAdded(i) ==
    /\ CloudFrame
    /\ fn[i].pc = "usage"
    /\ fn' = [fn EXCEPT ![i].pc = "incr", ![i].fsOps = @ + 1]
    /\ UNCHANGED <<userDoc, day, servedToday, started>>

\* logUsage: FieldValue.increment(1) is applied; the function returns its
\* result to the client.
Increment(i) ==
    /\ CloudFrame
    /\ fn[i].pc = "incr"
    /\ userDoc.exists
    /\ userDoc' = [userDoc EXCEPT !.requestsToday = @ + 1]
    /\ Respond(i, "ok")
    /\ servedToday' = servedToday + 1
    /\ UNCHANGED <<day, started>>

\* A pending Firestore operation fails: the catch answers 'internal'.
FirestoreThrows(i) ==
    /\ CloudFrame
    /\ fn[i].pc \in {"read", "create", "reset", "usage", "incr", "info"}
    /\ Respond(i, "internal")
    /\ UNCHANGED <<userDoc, day, servedToday, started>>

\* getUserInfo: the document read returns and the info is sent.
InfoRead(i) ==
    /\ CloudFrame
    /\ fn[i].pc = "info"
    /\ Respond(i, "ok")
    /\ UNCHANGED <<userDoc, day, servedToday, started>>

CloudNext ==
    \/ DayChange
    \/ \E i \in Instances, name \in Functions, auth \in Auths, valid \in BOOLEAN :
          Receive(i, name, auth, valid)
    \/ \E i \in Instances : ReadDoc(i)
    \/ \E i \in Instances : CreateDoc(i)
    \/ \E i \in Instances : ResetDoc(i)
    \/ \E i \in Instances : ModelReturns(i)
    \/ \E i \in Instances : ModelThrows(i)
    \/ \E i \in Instances : UsageAdded(i)
    \/ \E i \in Instances : Increment(i)
    \/ \E i \in Instances : FirestoreThrows(i)
    \/ \E i \in Instances : InfoRead(i)

InitCloud == CloudInit /\ RouterParked /\ StreamParked /\ SumParked /\ CaptionParked /\ ChatParked /\ ModeParked /\ TranslatorParked /\ PortParked

SpecCloud == InitCloud /\ [][CloudNext]_vars

\* C4: a free-tier user has been served at most FreeLimit successful AI
\* requests in the current day.
C4_FreeTierDailyLimit ==
    (userDoc.exists /\ userDoc.subscription = "free") => servedToday <= FreeLimit

\* C5: an invocation without authentication has ended, with the code
\* 'unauthenticated', without a Firestore operation and without a model call.
C5_UnauthenticatedRejectedFirst ==
    \A i \in Instances :
        (fn[i].pc # "idle" /\ fn[i].auth = "none") =>
            /\ fn[i].pc = "done"
            /\ fn[i].code = "unauthenticated"
            /\ fn[i].fsOps = 0
            /\ fn[i].modelCalls = 0

\* Unauthenticated calls of getUserInfo and of an AI function, both rejected.
C5_Witness ==
    \E i, j \in Instances :
        /\ fn[i].pc = "done" /\ fn[i].auth = "none" /\ fn[i].name = "getUserInfo"
        /\ fn[j].pc = "done" /\ fn[j].auth = "none" /\ fn[j].name \in AiFunctions

\* fn[i].denied: checkUserAccess denied the request; fn[i].message: the
\* message of the error a denied request is answered with.

\* C17: a request denied by checkUserAccess is answered with the code
\* 'resource-exhausted', which callFunction reports as the daily limit
\* message.
C17_DenialReachesClient ==
    \A i \in Instances :
        (fn[i].pc = "done" /\ fn[i].denied) =>
            /\ fn[i].code = "resource-exhausted"
            /\ CallFunctionMessage(fn[i].code, fn[i].message) = <<DailyLimitMessage>>

(***************************************************************************)
(* AI SERVICE: THE CACHED SUMMARIZER                                       *)
(***************************************************************************)

\* Summarizer instances created in a run.
MaxSummarizers == 2

\* options.type, options.length and options.format as the callers pass them
\* (Null: not given).
SummaryTypes == {Null, <<"tldr">>, <<"key", "points">>}
SummaryLengths == {Null, <<"short">>}
SummaryFormats == {Null, <<"markdown">>}

\* options.x || dflt
OrDefault(x, dflt) == IF x = Null THEN dflt ELSE x

\* The options summarize() works with.
SummaryType(c) == OrDefault(c.type, <<"tldr">>)
SummaryLength(c) == OrDefault(c.length, <<"medium">>)
SummaryFormat(c) == OrDefault(c.format, <<"plain", "text">>)

\* configKey = `${summaryType}-${summaryLength}-${summaryFormat}`
ConfigKey(c) == SummaryType(c) \o SummaryLength(c) \o SummaryFormat(c)

\* The check before the fix: an instance is reused whatever its options.
CacheMissIfNone(cached, config, key) == cached = NoInstance

\* !this.summarizer || this.summarizerConfig !== configKey
CacheMiss(cached, config, key) == cached = NoInstance \/ config # key

SumInit == SumParked

\* The catch of summarize(): the cache is dropped and the error rethrown.
SumCatch(c) ==
    /\ summarizer' = NoInstance
    /\ summarizerConfig' = Null
    /\ sumCall' = [sumCall EXCEPT ![c].pc = "done", ![c].result = "error"]

\* summarize(text, options) is called: an empty text throws at once,
\* otherwise Summarizer.availability() is awaited.
SumCall(c, type, length, format, textOk) ==
    /\ SumFrame
    /\ sumCall[c].pc \in {"idle", "done"}
    /\ created < MaxSummarizers
    /\ IF textOk
       THEN /\ sumCall' = [sumCall EXCEPT ![c] =
                  [IdleSum EXCEPT !.pc = "availability", !.type = type,
                                  !.length = length, !.format = format]]
            /\ UNCHANGED <<summarizer, summarizerConfig>>
       ELSE /\ summarizer' = NoInstance
            /\ summarizerConfig' = Null
            /\ sumCall' = [sumCall EXCEPT ![c] =
                  [IdleSum EXCEPT !.pc = "done", !.type = type,
                                  !.length = length, !.format = format,
                                  !.result = "error"]]
    /\ UNCHANGED <<created, destroyed>>

\* availability() does not allow a summary ('unavailable', or it throws).
SumUnavailable(c) ==
    /\ SumFrame
    /\ sumCall[c].pc = "availability"
    /\ SumCatch(c)
    /\ UNCHANGED <<created, destroyed>>

\* availability() returns: on a cache miss the old instance is destroyed and
\* Summarizer.create awaited; on a hit the cached instance summarizes.
SumAvailable(c) ==
    /\ SumFrame
    /\ sumCall[c].pc = "availability"
    /\ IF CacheMiss(summarizer, summarizerConfig, ConfigKey(sumCall[c]))
       THEN /\ destroyed' = IF summarizer # NoInstance
                            THEN destroyed \cup {summarizer.id} ELSE destroyed
            /\ summarizer' = NoInstance
            /\ sumCall' = [sumCall EXCEPT ![c].pc = "create"]
       ELSE /\ sumCall' = [sumCall EXCEPT ![c].pc = "summarize",
                                          ![c].used = summarizer]
            /\ UNCHANGED <<summarizer, destroyed>>
    /\ UNCHANGED <<summarizerConfig, created>>

\* Summarizer.create returns: the instance and its key are cached and the
\* instance summarizes.
SumCreated(c) ==
    /\ SumFrame
    /\ sumCall[c].pc = "create"
    /\ LET inst == [id |-> created + 1, type |-> SummaryType(sumCall[c]),
                    length |-> SummaryLength(sumCall[c]),
                    format |-> SummaryFormat(sumCall[c])]
       IN  /\ summarizer' = inst
           /\ summarizerConfig' = ConfigKey(sumCall[c])
           /\ sumCall' = [sumCall EXCEPT ![c].pc = "summarize", ![c].used = inst]
    /\ created' = created + 1
    /\ UNCHANGED destroyed

\* Summarizer.create throws.
SumCreateThrows(c) ==
    /\ SumFrame
    /\ sumCall[c].pc = "create"
    /\ SumCatch(c)
    /\ UNCHANGED <<created, destroyed>>

\* The instance returns a summary, which is returned to the caller.
SumReturns(c) ==
    /\ SumFrame
    /\ sumCall[c].pc = "summarize"
    /\ sumCall' = [sumCall EXCEPT ![c].pc = "done", ![c].result = "ok"]
    /\ UNCHANGED <<summarizer, summarizerConfig, created, destroyed>>

\* The instance throws or returns an empty summary.
SumThrows(c) ==
    /\ SumFrame
    /\ sumCall[c].pc = "summarize"
    /\ SumCatch(c)
    /\ UNCHANGED <<created, destroyed>>

SumNext ==
    \/ \E c \in Callers, type \in SummaryTypes, length \in SummaryLengths,
          format \in SummaryFormats, textOk \in BOOLEAN :
            SumCall(c, type, length, format, textOk)
    \/ \E c \in Callers : SumUnavailable(c)
    \/ \E c \in Callers : SumAvailable(c)
    \/ \E c \in Callers : SumCreated(c)
    \/ \E c \in Callers : SumCreateThrows(c)
    \/ \E c \in Callers : SumReturns(c)
    \/ \E c \in Callers : SumThrows(c)

InitSum == SumInit /\ RouterParked /\ StreamParked /\ CloudParked /\ CaptionParked /\ ChatParked /\ ModeParked /\ TranslatorParked /\ PortParked

SpecSum == InitSum /\ [][SumNext]_vars

\* C9: the instance a call summarizes with, and so every summary returned,
\* was created with the call's type, length and format; and a cached instance
\* always carries the config key of the options it was created with.
C9_SummarizerMatchesOptions ==
    /\ \A c \in Callers :
          (sumCall[c].pc = "summarize"
              \/ (sumCall[c].pc = "done" /\ sumCall[c].result = "ok")) =>
             /\ sumCall[c].used # NoInstance
             /\ sumCall[c].used.type = SummaryType(sumCall[c])
             /\ sumCall[c].used.length = SummaryLength(sumCall[c])
             /\ sumCall[c].used.format = SummaryFormat(sumCall[c])
    /\ summarizer # NoInstance =>
          summarizerConfig = summarizer.type \o summarizer.length \o summarizer.format

\* Two calls with different options overlap: each summarizes with its own
\* instance, the older of which has been destroyed and replaced in the cache.
C9_Witness ==
    \E c, e \in Callers :
        /\ sumCall[c].pc = "summarize" /\ sumCall[e].pc = "summarize"
        /\ ConfigKey(sumCall[c]) # ConfigKey(sumCall[e])
        /\ sumCall[c].used.id \in destroyed
        /\ sumCall[e].used = summarizer

(***************************************************************************)
(* CONTENT SCRIPT: THE LIVE CAPTION TRANSLATOR                             *)
(***************************************************************************)

\* The delay of the debounce timeout, in ms.
DEBOUNCE_MS == 150

\* The step of the clock and the end of a run, in ms.
TickMs == 75
MaxTime == 300

\* Caption detections handled, start() calls and text tracks in a run.
MaxDetections == 3
MaxCycles == 2
MaxTracks == 1

\* A caption text is named by its length; the longest one tried.
MaxCaptionLen == 3
Captions == 1..MaxCaptionLen

Sites == {"youtube", "netflix", "twitch", "generic"}

\* detectPlatform(): the platform is the site of the hostname.
DetectPlatform(hostname) == hostname

\* The branch startCaptionDetection takes for a platform.
DetectionOf(p) == IF p \in {"youtube", "netflix", "twitch"} THEN p ELSE "generic"

\* clearTimeout that cancels nothing.
ClearNothing(pending, id) == pending

\* clearTimeout(id): a pending timeout with this id is cancelled.
ClearTimeout(pending, id) == {t \in pending : t.id # id}

\* Listeners left registered.
KeepEventListeners(registered, ls) == registered

\* stopCaptionDetection: removeEventListener for every entry of this.listeners.
RemoveEventListeners(registered, ls) == registered \ ls

\* The test a mutation observer callback makes before handleDetectedCaption.
ObserverAccepts(p, text) ==
    /\ text # 0
    /\ text # lastOriginal
    /\ CASE DetectionOf(p) = "youtube" -> text > 1
         [] DetectionOf(p) = "netflix" -> TRUE
         [] OTHER -> text > 2

\* handleDetectedCaption(text): the pending timeout is replaced by a new one.
HandleDetectedCaption(text) ==
    IF text = 0 \/ text = lastOriginal
    THEN UNCHANGED <<timers, debounceTimer, det>>
    ELSE /\ timers' = ClearTimeout(timers, debounceTimer)
                        \cup {[id |-> Len(det) + 1, text |-> text,
                               due |-> now + DEBOUNCE_MS]}
         /\ debounceTimer' = Len(det) + 1
         /\ det' = Append(det, now)

\* attachToVideoTracks in start number gen: a cuechange listener per track
\* and an addtrack listener on video.textTracks (target 0).
AttachedListeners(gen) ==
    IF hasVideo
    THEN {[target |-> k, type |-> "cuechange", gen |-> gen] : k \in 1..tracks}
           \cup {[target |-> 0, type |-> "addtrack", gen |-> gen]}
    ELSE {}

CaptionInit ==
    /\ site \in Sites
    /\ hasVideo \in BOOLEAN
    /\ tracks = 0
    /\ now = 0
    /\ active = FALSE
    /\ platform = DetectPlatform(site)
    /\ overlay = NoOverlay
    /\ lastOriginal = 0
    /\ mutationObserver = 0
    /\ listeners = {}
    /\ debounceTimer = 0
    /\ observers = {}
    /\ registry = {}
    /\ timers = {}
    /\ det = <<>>
    /\ processed = {}
    /\ calledInactive = FALSE
    /\ cycles = 0
    /\ lastStop = NothingToStop
    /\ inflight = {}
    /\ panel = EmptyPanel

\* Time passes.
Tick ==
    /\ CaptionFrame
    /\ now + TickMs <= MaxTime
    /\ now' = now + TickMs
    /\ UNCHANGED <<site, hasVideo, tracks, liveVars, browserVars, liveLog, translateVars>>

\* start(opts): the overlay, then the platform's caption detection; on
\* YouTube the captions already on the page (text, 0 for none) are checked.
Start(showOverlay, text) ==
    /\ CaptionFrame
    /\ ~active
    /\ cycles < MaxCycles
    /\ Len(det) < MaxDetections
    /\ LET gen == cycles + 1
           p == DetectPlatform(site)
           attached == IF DetectionOf(p) \in {"youtube", "generic"}
                       THEN AttachedListeners(gen) ELSE {}
       IN  /\ active' = TRUE
           /\ cycles' = gen
           /\ platform' = p
           /\ overlay' = IF showOverlay
                         THEN [exists |-> TRUE, kind |-> "listening", caption |-> 0]
                         ELSE overlay
           /\ mutationObserver' = gen
           /\ observers' = observers \cup {gen}
           /\ registry' = registry \cup attached
           /\ listeners' = listeners \cup attached
           /\ IF DetectionOf(p) = "youtube"
              THEN HandleDetectedCaption(text)
              ELSE UNCHANGED <<timers, debounceTimer, det>>
    /\ UNCHANGED <<pageVars, lastOriginal, processed, calledInactive, lastStop,
                   translateVars>>

\* stop(): the observer is disconnected, the listeners are removed, the
\* pending timeout is cancelled, the overlay is removed.
Stop ==
    /\ CaptionFrame
    /\ active' = FALSE
    /\ observers' = observers \ {mutationObserver}
    /\ mutationObserver' = 0
    /\ registry' = RemoveEventListeners(registry, listeners)
    /\ listeners' = {}
    /\ timers' = IF debounceTimer # 0
                 THEN ClearTimeout(timers, debounceTimer) ELSE timers
    /\ debounceTimer' = 0
    /\ overlay' = NoOverlay
    /\ lastOriginal' = 0
    /\ lastStop' = [observer |-> mutationObserver # 0,
                    listeners |-> Cardinality(listeners),
                    timer |-> \E t \in timers : t.id = debounceTimer]
    /\ UNCHANGED <<pageVars, platform, det, processed, calledInactive, cycles,
                   translateVars>>

\* The page changes and a connected observer's callback runs, finding the
\* caption text in the elements of its platform.
MutationSeen(text) ==
    /\ CaptionFrame
    /\ observers # {}
    /\ Len(det) < MaxDetections
    /\ IF active /\ ObserverAccepts(platform, text)
       THEN HandleDetectedCaption(text)
       ELSE UNCHANGED <<timers, debounceTimer, det>>
    /\ UNCHANGED <<pageVars, active, platform, overlay, lastOriginal, mutationObserver,
                   listeners, observers, registry, processed,
                   calledInactive, cycles, lastStop, translateVars>>

\* The active cues of a track change: its cuechange listeners run
\* handleCueChange.
CueChange(k, text) ==
    /\ CaptionFrame
    /\ \E l \in registry : l.target = k /\ l.type = "cuechange"
    /\ Len(det) < MaxDetections
    /\ IF active /\ text # 0 /\ text # lastOriginal
       THEN HandleDetectedCaption(text)
       ELSE UNCHANGED <<timers, debounceTimer, det>>
    /\ UNCHANGED <<pageVars, active, platform, overlay, lastOriginal, mutationObserver,
                   listeners, observers, registry, processed,
                   calledInactive, cycles, lastStop, translateVars>>

\* The video gets a text track: every addtrack listener registers a
\* cuechange listener on it and records it in this.listeners.
AddTrack ==
    /\ CaptionFrame
    /\ hasVideo
    /\ tracks < MaxTracks
    /\ tracks' = tracks + 1
    /\ LET added == {[target |-> tracks + 1, type |-> "cuechange", gen |-> l.gen] :
                        l \in {r \in registry : r.type = "addtrack"}}
       IN  /\ registry' = registry \cup added
           /\ listeners' = listeners \cup added
    /\ UNCHANGED <<site, hasVideo, now, active, platform, overlay, lastOriginal,
                   mutationObserver, debounceTimer, observers, timers, liveLog,
                   translateVars>>

\* A timeout is due and its callback calls processCaption(text), which runs
\* up to its await: the side panel gets the original, the overlay shows it
\* and the TRANSLATE request is sent.
TimerFires(t) ==
    /\ CaptionFrame
    /\ t \in timers
    /\ now >= t.due
    /\ timers' = timers \ {t}
    /\ IF active /\ t.text # 0
       THEN /\ lastOriginal' = t.text
            /\ processed' = processed \cup {t.id}
            /\ overlay' = IF overlay.exists
                          THEN [overlay EXCEPT !.kind = "original", !.caption = t.text]
                          ELSE overlay
            /\ panel' = [panel EXCEPT !.original = t.text]
            /\ inflight' = inflight \cup {[id |-> t.id, text |-> t.text]}
            /\ UNCHANGED calledInactive
       ELSE /\ calledInactive' = (calledInactive \/ ~active)
            /\ UNCHANGED <<lastOriginal, processed, overlay, translateVars>>
    /\ UNCHANGED <<pageVars, active, platform, mutationObserver, listeners,
                   debounceTimer, observers, registry, det, cycles, lastStop>>

\* The response to a TRANSLATE request arrives and processCaption resumes:
\* with a translation, the overlay and the side panel are set to it.  The
\* overlay exists only if the last start() set showOverlay.
TranslateResponds(r, translated) ==
    /\ CaptionFrame
    /\ r \in inflight
    /\ inflight' = inflight \ {r}
    /\ IF translated
       THEN /\ overlay' = IF overlay.exists
                          THEN [overlay EXCEPT !.kind = "translated", !.caption = r.text]
                          ELSE overlay
            /\ panel' = [original |-> r.text, translated |-> r.text]
       ELSE UNCHANGED <<overlay, panel>>
    /\ UNCHANGED <<pageVars, active, platform, lastOriginal, mutationObserver,
                   listeners, debounceTimer, browserVars, liveLog>>

CaptionNext ==
    \/ Tick
    \/ \E showOverlay \in BOOLEAN, text \in Captions \cup {0} : Start(showOverlay, text)
    \/ Stop
    \/ \E text \in Captions : MutationSeen(text)
    \/ \E k \in 1..MaxTracks, text \in Captions : CueChange(k, text)
    \/ AddTrack
    \/ \E t \in timers : TimerFires(t)
    \/ \E r \in inflight, translated \in BOOLEAN : TranslateResponds(r, translated)

InitCaption == CaptionInit /\ RouterParked /\ StreamParked /\ CloudParked /\ SumParked /\ ChatParked /\ ModeParked /\ TranslatorParked /\ PortParked

SpecCaption == InitCaption /\ [][CaptionNext]_vars

\* C2: at most one debounce timeout is pending, and a caption that was
\* followed by another detection less than DEBOUNCE_MS later is never taken
\* up by processCaption.
C2_DebounceKeepsLast ==
    /\ Cardinality(timers) <= 1
    /\ \A i \in processed : \A j \in (i + 1)..Len(det) :
          det[j] - det[i] >= DEBOUNCE_MS

\* A burst of three detections less than DEBOUNCE_MS apart, of which the
\* last was processed.
C2_Witness ==
    /\ Len(det) = 3
    /\ det[2] - det[1] < DEBOUNCE_MS /\ det[3] - det[2] < DEBOUNCE_MS
    /\ det[3] > det[1]
    /\ 3 \in processed

\* C10: while the controller is stopped no observer of it is observing, no
\* listener of it is registered and no timeout is pending, and processCaption
\* was never called while it was stopped.
C10_StopReleasesEverything ==
    /\ ~active => (observers = {} /\ registry = {} /\ timers = {})
    /\ ~calledInactive

\* The second stop() disconnected the observer, removed track listeners and
\* cancelled a pending timeout.
C10_Witness ==
    /\ ~active /\ cycles = 2
    /\ lastStop.observer /\ lastStop.listeners >= 2 /\ lastStop.timer

\* C14: while a caption is the most recently processed one, a translation
\* shown by the overlay is that caption's, and the side panel's original is
\* that caption.
C14_NewestCaptionShown ==
    (active /\ lastOriginal # 0) =>
        /\ overlay.kind = "translated" => overlay.caption = lastOriginal
        /\ panel.original = lastOriginal

(***************************************************************************)
(* AI ROUTER: CHAT AND ITS CONTEXT                                         *)
(***************************************************************************)

\* The number of chat messages sent.
MaxMessages == 3

\* What selectProvider('chat', message) gives: a provider, or it throws.
Selections == {"local", "cloud", "throw"}

\* The two entries chat() pushes for an answered message.
Exchange(m) == <<[role |-> "user", content |-> m],
                 [role |-> "assistant", content |-> m]>>

\* Whether a context holds message m together with its answer.
InContext(m, context) ==
    \A k \in 1..2 : \E i \in 1..Len(context) : context[i] = Exchange(m)[k]

\* The options argument, by default {}: an object, which holds no messages
\* and is not iterable.
Options == [iterable |-> FALSE, messages |-> <<>>]

\* chatWithAI builds the prompt with for (const msg of context), which
\* throws on a context that is not iterable.
ChatWithAICanAnswer(iterable) == iterable

ChatInit == ChatParked

\* AIRouter.chat(message): selectProvider, then the call of the provider.
\* The cloud provider is handed this.conversationHistory; localAI.prompt
\* creates the session if there is none and prompts it.
ChatStart(provider) ==
    /\ ChatFrame
    /\ chatCall.pc \in {"idle", "done"}
    /\ asked < MaxMessages
    /\ asked' = asked + 1
    /\ LET call == [IdleChat EXCEPT !.message = asked + 1, !.owed = answered]
       IN  chatCall' =
             CASE provider = "throw" ->
                    [call EXCEPT !.pc = "done", !.result = "error"]
               [] provider = "cloud" ->
                    [call EXCEPT !.pc = "first", !.calls = <<"cloud">>,
                                 !.context = conversationHistory]
               [] provider = "local" ->
                    [call EXCEPT !.pc = "first", !.calls = <<"local">>,
                                 !.context = aiSession.history]
    /\ aiSession' = IF provider = "local"
                    THEN [aiSession EXCEPT !.exists = TRUE] ELSE aiSession
    /\ UNCHANGED <<conversationHistory, answered>>

\* The provider called first answers: chat() pushes the exchange after a
\* cloud answer; the local session keeps what it was prompted with.
ChatFirstReturns ==
    /\ ChatFrame
    /\ chatCall.pc = "first"
    /\ LET provider == chatCall.calls[1]
           m == chatCall.message
       IN  /\ provider = "local" => aiSession.exists
           /\ provider = "cloud" => ChatWithAICanAnswer(chatCall.iterable)
           /\ conversationHistory' =
                 IF provider = "cloud"
                 THEN conversationHistory \o Exchange(m)
                 ELSE conversationHistory
           /\ aiSession' =
                 IF provider = "local"
                 THEN [aiSession EXCEPT !.history = @ \o Exchange(m)]
                 ELSE aiSession
           /\ answered' = answered \cup {m}
    /\ chatCall' = [chatCall EXCEPT !.pc = "done", !.result = "ok"]
    /\ UNCHANGED asked

\* The provider called first throws: fallback() checks the other provider
\* and calls it; the cloud provider is handed options as its context.
ChatFirstThrows(hasCloudAccess) ==
    /\ ChatFrame
    /\ chatCall.pc = "first"
    /\ LET alternate == AlternateProvider(chatCall.calls[1])
           accessible == AlternateAccessible(alternate, "chat", api, hasCloudAccess)
       IN  chatCall' =
             IF ~accessible
             THEN [chatCall EXCEPT !.pc = "done", !.result = "error"]
             ELSE IF alternate = "cloud"
             THEN [chatCall EXCEPT !.pc = "fallback",
                                   !.calls = Append(@, "cloud"),
                                   !.context = Options.messages,
                                   !.iterable = Options.iterable,
                                   !.owed = answered]
             ELSE [chatCall EXCEPT !.pc = "fallback",
                                   !.calls = Append(@, "local"),
                                   !.context = aiSession.history,
                                   !.owed = answered]
    /\ UNCHANGED <<conversationHistory, aiSession, answered, asked>>

\* The alternate provider throws and the error reaches the caller.  This is
\* the only outcome of a chat fallback: isLocalAvailable('chat') never
\* passes, and chatWithAI cannot iterate the options it is handed as context.
ChatFallbackThrows ==
    /\ ChatFrame
    /\ chatCall.pc = "fallback"
    /\ chatCall.calls[2] = "cloud" /\ ~ChatWithAICanAnswer(chatCall.iterable)
    /\ chatCall' = [chatCall EXCEPT !.pc = "done", !.result = "error"]
    /\ UNCHANGED <<conversationHistory, aiSession, answered, asked>>

\* AIRouter.resetChatSession
ResetChatSession ==
    /\ ChatFrame
    /\ conversationHistory' = <<>>
    /\ aiSession' = NoSession
    /\ answered' = {}
    /\ UNCHANGED <<chatCall, asked>>

ChatNext ==
    \/ \E provider \in Selections : ChatStart(provider)
    \/ ChatFirstReturns
    \/ \E hasCloudAccess \in BOOLEAN : ChatFirstThrows(hasCloudAccess)
    \/ ChatFallbackThrows
    \/ ResetChatSession

InitChat == ChatInit /\ RouterParked /\ StreamParked /\ CloudParked /\ SumParked /\ CaptionParked /\ ModeParked /\ TranslatorParked /\ PortParked

SpecChat == InitChat /\ [][ChatNext]_vars

\* chatCall.owed: the messages answered since the last resetChatSession when
\* the provider was called; chatCall.context: the context that call was given.

\* C11: every provider call of a chat message is given a context that holds
\* each message answered since the last resetChatSession, with its answer.
C11_ContextHoldsAnsweredMessages ==
    chatCall.calls # <<>> =>
        \A m \in chatCall.owed : InContext(m, chatCall.context)

(***************************************************************************)
(* THE AI MODE: setMode / setAIMode, initialize / getAIMode, describeImage *)
(***************************************************************************)

\* The two objects that keep the mode in memory: the AIRouter and the
\* service worker's AIService.  Both store it under the key 'aiMode'.
Holders == {"router", "service"}

\* The modes each is set to: SET_AI_MODE passes 'online' or 'local'.
ServiceModes == {"local", "online"}

ModesOf(by) == IF by = "router" THEN Modes ELSE ServiceModes

\* The features that reload the mode before they use it: the router's
\* operations call selectProvider, promptStream calls getAIMode.
LoadingFeatures(by) ==
    IF by = "router" THEN {"summarize", "translate", "chat"}
    ELSE {"promptStream"}

\* How a request is handled under a mode: the router selects the provider
\* for that mode; the service takes the local branch or the cloud branch.
DescribeImageBranch(mode) == IF mode = "local" THEN "local" ELSE "cloud"

PromptStreamBranch(mode) == IF mode = "online" THEN "cloud" ELSE "local"

HandledAs(by, feature, mode) ==
    CASE by = "router" -> mode
      [] feature = "describeImage" -> DescribeImageBranch(mode)
      [] OTHER -> PromptStreamBranch(mode)

\* chrome.storage.local handles its calls in order: a get issued while a
\* set is pending returns the value being set.
StorageGet == IF setCall.pc = "storing" THEN setCall.mode ELSE storedMode

\* The mode a request that starts now is to be handled by: that of the last
\* completed set call, none while a set call is in progress.
Wanted == IF setCall.pc = "storing" THEN NeverSet ELSE lastSet

ModeInit ==
    /\ storedMode \in {"unset"} \cup Modes \cup ServiceModes
    /\ preferredMode = "local"
    /\ RouterEnvParked
    /\ ModeParked

\* setMode(mode) / setAIMode(mode) up to its await: the field is assigned
\* and chrome.storage.local.set is issued.
SetBegin(by, mode) ==
    /\ ModeFrame
    /\ setCall.pc = "idle"
    /\ mode \in ModesOf(by)
    /\ setCall' = [pc |-> "storing", by |-> by, mode |-> mode]
    /\ preferredMode' = IF by = "router" THEN mode ELSE preferredMode
    /\ aiMode' = IF by = "service" THEN mode ELSE aiMode
    /\ UNCHANGED <<storedMode, load, lastSet, handled>>

\* The value is stored and setMode / setAIMode completes.
SetStored ==
    /\ ModeFrame
    /\ setCall.pc = "storing"
    /\ storedMode' = setCall.mode
    /\ lastSet' = [mode |-> setCall.mode, by |-> setCall.by]
    /\ setCall' = IdleSet
    /\ UNCHANGED <<preferredMode, aiMode, load, handled>>

\* A feature request starts: initialize() / getAIMode() issues
\* chrome.storage.local.get and awaits it.
LoadStart(by, feature) ==
    /\ ModeFrame
    /\ load.pc = "idle"
    /\ feature \in LoadingFeatures(by)
    /\ load' = [pc |-> "reading", by |-> by, feature |-> feature,
                value |-> StorageGet, want |-> Wanted.mode,
                wantBy |-> Wanted.by]
    /\ UNCHANGED <<storedMode, preferredMode, aiMode, setCall, lastSet, handled>>

\* The get resolves: the field is assigned result.aiMode || 'local' and the
\* request is handled by it.
LoadResume ==
    /\ ModeFrame
    /\ load.pc = "reading"
    /\ LET mode == LoadedMode(load.value)
       IN  /\ preferredMode' = IF load.by = "router" THEN mode ELSE preferredMode
           /\ aiMode' = IF load.by = "service" THEN mode ELSE aiMode
           /\ handled' = [by |-> load.by, feature |-> load.feature,
                          how |-> HandledAs(load.by, load.feature, mode),
                          want |-> load.want, wantBy |-> load.wantBy]
    /\ load' = IdleLoad
    /\ UNCHANGED <<storedMode, setCall, lastSet>>

\* AIService.describeImage: it branches on this.aiMode as it is in memory.
DescribeImage ==
    /\ ModeFrame
    /\ handled' = [by |-> "service", feature |-> "describeImage",
                   how |-> HandledAs("service", "describeImage", aiMode),
                   want |-> Wanted.mode, wantBy |-> Wanted.by]
    /\ UNCHANGED <<storedMode, preferredMode, aiMode, setCall, load, lastSet>>

\* The idle service worker is stopped and started again: the module runs
\* anew and the objects are constructed with the mode 'local'.
WorkerRestart ==
    /\ ModeFrame
    /\ setCall.pc = "idle" /\ load.pc = "idle"
    /\ preferredMode' = "local"
    /\ aiMode' = "local"
    /\ UNCHANGED <<storedMode, setCall, load, lastSet, handled>>

ModeNext ==
    \/ \E by \in Holders, mode \in Modes \cup ServiceModes : SetBegin(by, mode)
    \/ SetStored
    \/ \E by \in Holders, feature \in {"summarize", "translate", "chat", "promptStream"} :
          LoadStart(by, feature)
    \/ LoadResume
    \/ DescribeImage
    \/ WorkerRestart

InitMode == ModeInit /\ StreamParked /\ CloudParked /\ SumParked /\ CaptionParked /\ ChatParked /\ TranslatorParked /\ PortParked

SpecMode == InitMode /\ [][ModeNext]_vars

\* handled.want: the mode of the last set call completed when the request
\* started ("none" if there was none or one was in progress); handled.wantBy:
\* the object that call was made on.

\* C12: a feature request that starts after setMode / setAIMode(m) completed
\* on its object is handled according to m, whether or not the service worker
\* restarted in between.
C12_ModeSurvivesRestart ==
    (handled.feature # "none" /\ handled.want # "none"
        /\ handled.wantBy = handled.by)
      => handled.how = HandledAs(handled.by, handled.feature, handled.want)

\* The router alone: setMode calls and the operations that call initialize.
SwitchNext ==
    \/ \E mode \in Modes : SetBegin("router", mode)
    \/ SetStored
    \/ \E feature \in LoadingFeatures("router") : LoadStart("router", feature)
    \/ LoadResume

InitSwitch == ModeInit /\ StreamParked /\ CloudParked /\ SumParked /\ CaptionParked /\ ChatParked /\ TranslatorParked /\ PortParked

SpecSwitch == InitSwitch /\ [][SwitchNext]_vars

\* C13: whenever no setMode call is in progress and one has completed, the
\* router's preferredMode equals the stored 'aiMode', the mode last set.
C13_PreferredModeIsStoredMode ==
    (setCall.pc = "idle" /\ lastSet.mode # "none")
      => (preferredMode = storedMode /\ preferredMode = lastSet.mode)

(***************************************************************************)
(* AI SERVICE: THE CACHED TRANSLATOR                                       *)
(***************************************************************************)

\* translate / translateStream calls started in a run.
MaxTranslations == 3

TranslateOps == {"translate", "translateStream"}

\* The language codes the callers pass.
LanguageCodes == {"en", "fr", "FR", "de"}

\* String(code).toLowerCase()
ToLowerCase(code) == IF code = "FR" THEN "fr" ELSE code

\* pairKey = `${sourceLanguage}->${targetLanguage}`
PairKey(source, target) == <<source, "->", target>>

\* !this.translator || this.translatorPair !== pairKey
TranslatorMiss(cached, pair, key) == cached = NoTranslator \/ pair # key

TranslatorInit == TranslatorParked

\* translate / translateStream is called with a source language: the codes
\* are lowercased; identical languages return the text as it is, otherwise
\* Translator.availability is awaited.
TrCall(c, op, sourceLanguage, targetLanguage) ==
    /\ TranslatorFrame
    /\ trCall[c].pc \in {"idle", "done"}
    /\ trStarted < MaxTranslations
    /\ trStarted' = trStarted + 1
    /\ LET source == ToLowerCase(sourceLanguage)
           target == ToLowerCase(targetLanguage)
           call == [IdleTr EXCEPT !.op = op, !.source = source, !.target = target]
       IN  trCall' = [trCall EXCEPT ![c] =
               IF source = target
               THEN [call EXCEPT !.pc = "done", !.result = "identical"]
               ELSE [call EXCEPT !.pc = "availability"]]
    /\ UNCHANGED <<translator, translatorPair, trCreated>>

\* availability() answers 'unavailable' or throws: the call fails.
TrUnavailable(c) ==
    /\ TranslatorFrame
    /\ trCall[c].pc = "availability"
    /\ trCall' = [trCall EXCEPT ![c].pc = "done", ![c].result = "error"]
    /\ UNCHANGED <<translator, translatorPair, trStarted, trCreated>>

\* availability() allows the pair.  On a cache miss the instance is dropped
\* and the pair key is stored, then Translator.create is awaited, unless user
\* activation is missing; on a hit the cached instance translates.
TrAvailable(c, hasActivation) ==
    /\ TranslatorFrame
    /\ trCall[c].pc = "availability"
    /\ LET pairKey == PairKey(trCall[c].source, trCall[c].target)
       IN  IF TranslatorMiss(translator, translatorPair, pairKey)
           THEN /\ translator' = NoTranslator
                /\ translatorPair' = pairKey
                /\ trCall' = [trCall EXCEPT ![c] =
                       IF hasActivation
                       THEN [@ EXCEPT !.pc = "create"]
                       ELSE [@ EXCEPT !.pc = "done", !.result = "error"]]
           ELSE /\ trCall' = [trCall EXCEPT ![c].pc = "translate",
                                            ![c].used = translator]
                /\ UNCHANGED <<translator, translatorPair>>
    /\ UNCHANGED <<trStarted, trCreated>>

\* Translator.create returns: the instance is cached and translates.
TrCreated(c) ==
    /\ TranslatorFrame
    /\ trCall[c].pc = "create"
    /\ LET inst == [id |-> trCreated + 1, source |-> trCall[c].source,
                    target |-> trCall[c].target]
       IN  /\ translator' = inst
           /\ trCall' = [trCall EXCEPT ![c].pc = "translate", ![c].used = inst]
    /\ trCreated' = trCreated + 1
    /\ UNCHANGED <<translatorPair, trStarted>>

\* Translator.create throws.
TrCreateThrows(c) ==
    /\ TranslatorFrame
    /\ trCall[c].pc = "create"
    /\ trCall' = [trCall EXCEPT ![c].pc = "done", ![c].result = "error"]
    /\ UNCHANGED <<translator, translatorPair, trStarted, trCreated>>

\* The instance returns the translation (its stream ends).
TrReturns(c) ==
    /\ TranslatorFrame
    /\ trCall[c].pc = "translate"
    /\ trCall' = [trCall EXCEPT ![c].pc = "done", ![c].result = "ok"]
    /\ UNCHANGED <<translator, translatorPair, trStarted, trCreated>>

\* The instance throws.
TrThrows(c) ==
    /\ TranslatorFrame
    /\ trCall[c].pc = "translate"
    /\ trCall' = [trCall EXCEPT ![c].pc = "done", ![c].result = "error"]
    /\ UNCHANGED <<translator, translatorPair, trStarted, trCreated>>

TranslatorNext ==
    \/ \E c \in Callers, op \in TranslateOps, sl \in LanguageCodes, tl \in LanguageCodes :
          TrCall(c, op, sl, tl)
    \/ \E c \in Callers : TrUnavailable(c)
    \/ \E c \in Callers, hasActivation \in BOOLEAN : TrAvailable(c, hasActivation)
    \/ \E c \in Callers : TrCreated(c)
    \/ \E c \in Callers : TrCreateThrows(c)
    \/ \E c \in Callers : TrReturns(c)
    \/ \E c \in Callers : TrThrows(c)

InitTranslator == TranslatorInit /\ RouterParked /\ StreamParked /\ CloudParked /\ SumParked /\ CaptionParked /\ ChatParked /\ ModeParked /\ PortParked

SpecTranslator == InitTranslator /\ [][TranslatorNext]_vars

\* C15: the instance a call invokes was created for the call's pair, and a
\* cached instance was created for the pair translatorPair names.
C15_TranslatorMatchesPair ==
    /\ \A c \in Callers : trCall[c].pc = "translate" =>
          /\ trCall[c].used.source = trCall[c].source
          /\ trCall[c].used.target = trCall[c].target
    /\ translator # NoTranslator =>
          translatorPair = PairKey(translator.source, translator.target)

(***************************************************************************)
(* SERVICE WORKER: THE STREAMING PORTS                                     *)
(***************************************************************************)

\* The chunks of a stream.
MaxChunks == 2

\* The port names: PROMPT_AI_STREAM requests come on 'ai-chat-stream',
\* TRANSLATE_STREAM requests on 'translate-stream'.
PortNames == {"ai-chat-stream", "translate-stream"}

\* The code that produces the chunks: promptStream reads the Vertex AI
\* stream in 'online' mode and the local session's stream otherwise;
\* translateStream reads the local Translator's stream.
StreamPaths(name) ==
    IF name = "ai-chat-stream" THEN {"local", "online"} ELSE {"local"}

\* A handler that reports every end as a success.
TerminalDone(ended) == "done"

\* The terminal message of the handler: 'done' after the await returned,
\* 'error' in the catch.
Terminal(ended) == IF ended = "returned" THEN "done" ELSE "error"

\* port.postMessage(msg) on a connected port.
PostMessage(q, type) == [q EXCEPT !.posted = Append(@, type)]

\* The handler ends: it posts its terminal message; on a disconnected port
\* postMessage throws, from the try into the catch and from the catch out of
\* the handler, and nothing is posted.
Finish(q, ended) ==
    IF q.connected
    THEN [PostMessage(q, Terminal(ended)) EXCEPT !.pc = "finished", !.ended = ended]
    ELSE [q EXCEPT !.pc = "finished", !.ended = "unhandled"]

PortInit == PortParked

\* The side panel connects a port and posts its request; the listener calls
\* promptStream / translateStream and awaits it.
PortRequest(p, name, path) ==
    /\ PortFrame
    /\ port[p].pc = "none"
    /\ path \in StreamPaths(name)
    /\ port' = [port EXCEPT ![p] = [NoPort EXCEPT !.name = name, !.pc = "stream",
                                                  !.connected = TRUE, !.path = path]]

\* The side panel is closed: the port is disconnected.
PortDisconnect(p) ==
    /\ PortFrame
    /\ port[p].connected
    /\ port' = [port EXCEPT ![p].connected = FALSE]

\* The stream yields a chunk and onChunk posts it.  On a disconnected port
\* postMessage throws: callVertexAIStream catches it and reads on, the local
\* streams let it end the request.
StreamChunkPosted(p) ==
    /\ PortFrame
    /\ port[p].pc = "stream"
    /\ Len(port[p].posted) < MaxChunks
    /\ port' = [port EXCEPT ![p] =
          IF @.connected THEN PostMessage(@, "chunk")
          ELSE IF @.path = "online" THEN @
          ELSE Finish(@, "threw")]

\* promptStream / translateStream returns: the handler posts 'done'.
StreamEnds(p) ==
    /\ PortFrame
    /\ port[p].pc = "stream"
    /\ port' = [port EXCEPT ![p] = Finish(@, "returned")]

\* promptStream / translateStream throws: the catch posts 'error'.
StreamThrows(p) ==
    /\ PortFrame
    /\ port[p].pc = "stream"
    /\ port' = [port EXCEPT ![p] = Finish(@, "threw")]

PortNext ==
    \/ \E p \in PortIds, name \in PortNames, path \in {"local", "online"} :
          PortRequest(p, name, path)
    \/ \E p \in PortIds : PortDisconnect(p)
    \/ \E p \in PortIds : StreamChunkPosted(p)
    \/ \E p \in PortIds : StreamEnds(p)
    \/ \E p \in PortIds : StreamThrows(p)

InitPort == PortInit /\ RouterParked /\ StreamParked /\ CloudParked /\ SumParked /\ CaptionParked /\ ChatParked /\ ModeParked /\ TranslatorParked

SpecPort == InitPort /\ [][PortNext]_vars

\* C16: on every port the messages posted are 'chunk' messages followed by
\* at most one terminal message, none while the request is running; and a
\* request that ended on a port still connected has posted exactly one
\* terminal message, 'done' if the stream returned and 'error' if it threw.
C16_ChunksThenOneTerminal ==
    \A p \in PortIds :
        LET q == port[p]
            n == Len(q.posted)
        IN  /\ \A i \in 1..(n - 1) : q.posted[i] = "chunk"
            /\ q.pc = "stream" => \A i \in 1..n : q.posted[i] = "chunk"
            /\ (q.pc = "finished" /\ q.connected) =>
                  /\ n >= 1
                  /\ q.ended \in {"returned", "threw"}
                  /\ q.ended = "returned" => q.posted[n] = "done"
                  /\ q.ended = "threw" => q.posted[n] = "error"

\* C16 without the condition on the port: every request that ended has posted
\* its chunks and then one terminal message, 'done' or 'error'.  A request
\* whose port the side panel disconnected before the stream settled ends with
\* no terminal message, postMessage throwing in the try and in the catch.
C16_EveryRequestPostsTerminal ==
    \A p \in PortIds :
        LET q == port[p]
            n == Len(q.posted)
        IN  q.pc = "finished" =>
                /\ n >= 1
                /\ q.posted[n] \in {"done", "error"}
                /\ \A i \in 1..(n - 1) : q.posted[i] = "chunk"

\* A chat request whose stream threw after two chunks, and a translation
\* request that succeeded, both on connected ports.
C16_Witness ==
    \E p, r \in PortIds :
        /\ port[p].name = "ai-chat-stream" /\ port[p].connected
        /\ port[p].posted = <<"chunk", "chunk", "error">>
        /\ port[r].name = "translate-stream" /\ port[r].connected
        /\ port[r].pc = "finished" /\ port[r].posted[Len(port[r].posted)] = "done"

====
